---- MODULE Spec2Model ----
(***************************************************************************)
(* State-machine model of the DRV2605L haptic driver (src/src/lib.rs).     *)
(*                                                                         *)
(* The driver keeps no shadow state: everything lives in the peripheral's  *)
(* registers (regs).  Every register read or write is one bus transaction  *)
(* and one step of the model; each transaction may fail (ConnectionError). *)
(* The peripheral runs concurrently and clears the GO bit on completion.   *)
(* log is the list of bus transactions issued by the current operation.    *)
(***************************************************************************)
EXTENDS Naturals, Sequences, FiniteSets

VARIABLES regs, lra, cal, ncalls, ready, op, arg, pc, loc, ret, val, log, polls, lastMode, modeSet

vars == <<regs, lra, cal, ncalls, ready, op, arg, pc, loc, ret, val, log, polls, lastMode, modeSet>>

(***************************************************************************)
(* Bounds of the model.                                                    *)
(***************************************************************************)
\* GO-register reads the poll loop may issue while the GO bit is still set
MaxPoll == 2

\* operations the caller may invoke after construction, where a specification
\* counts them
MaxCalls == 2

(***************************************************************************)
(* Register codec (mod registers).  lib.rs only calls its accessors; the   *)
(* bit layout is the one the accessors' names refer to in the device's     *)
(* register map.  A register is one byte; a field is a shift-and-mask.     *)
(*                                                                         *)
(* lastMode and modeSet are history variables: the target of the last      *)
(* set_mode call if it returned Ok ("unknown" while a call is running or   *)
(* after it failed), and whether any set_mode call has returned Ok.        *)
(***************************************************************************)
Pow2(n) == 2 ^ n

Field(b, lo, w) == (b \div Pow2(lo)) % Pow2(w)

SetField(b, lo, w, v) == (b - Field(b, lo, w) * Pow2(lo)) + (v % Pow2(w)) * Pow2(lo)

Bit(b, n) == Field(b, n, 1) = 1

SetBit(b, n, x) == SetField(b, n, 1, IF x THEN 1 ELSE 0)

\* StatusReg
device_id(b) == Field(b, 5, 3)
diagnostic_result(b) == Bit(b, 3)

\* ModeReg
standby(b) == Bit(b, 6)
set_standby_bit(b, x) == SetBit(b, 6, x)
mode_field(b) == Field(b, 0, 3)
set_mode_field(b, v) == SetField(b, 0, 3, v)

\* registers::Mode
InternalTrigger == 0
PwmInputAndAnalogInput == 3
RealTimePlaybackMode == 5
AutoCalibration == 7

\* GoReg
go_bit(b) == Bit(b, 0)
set_go_bit(b, x) == SetBit(b, 0, x)

\* LibrarySelectionReg
library_selection(b) == Field(b, 0, 3)
set_library_selection(b, v) == SetField(b, 0, 3, v)

\* FeedbackControlReg
bemf_gain(b) == Field(b, 0, 2)
set_bemf_gain(b, v) == SetField(b, 0, 2, v)
set_loop_gain(b, v) == SetField(b, 2, 2, v)
set_fb_brake_factor(b, v) == SetField(b, 4, 3, v)
n_erm_lra(b) == Bit(b, 7)
set_n_erm_lra(b, x) == SetBit(b, 7, x)

\* Control1Reg
set_drive_time(b, v) == SetField(b, 0, 5, v)

\* Control2Reg
set_idiss_time(b, v) == SetField(b, 0, 2, v)
set_blanking_time(b, v) == SetField(b, 2, 2, v)
set_sample_time(b, v) == SetField(b, 4, 2, v)

\* Control3Reg
n_pwm_analog(b) == Bit(b, 1)
set_n_pwm_analog(b, x) == SetBit(b, 1, x)
data_format_rtp(b) == Bit(b, 3)
set_data_format_rtp(b, x) == SetBit(b, 3, x)
erm_open_loop(b) == Bit(b, 5)
set_erm_open_loop(b, x) == SetBit(b, 5, x)

\* Control4Reg
otp_status(b) == Bit(b, 2)
set_auto_cal_time(b, v) == SetField(b, 4, 2, v)
set_zc_det_time(b, v) == SetField(b, 6, 2, v)

\* Control5Reg
playback_interval(b) == Bit(b, 4)
set_playback_interval(b, x) == SetBit(b, 4, x)

\* Default::default() of the registers the auto path builds from scratch
FeedbackControlDefault == 54
Control1Default == 147
Control2Default == 245
Control4Default == 32

\* Effect::Stop, the end-of-sequence marker of the waveform sequencer
EffectStop == 0

WaveRegs == <<"wave0", "wave1", "wave2", "wave3", "wave4", "wave5", "wave6", "wave7">>

RegNames ==
    {"status", "mode", "rtp", "lib", "go", "odt", "spt", "snt", "brt", "rated",
     "clamp", "comp", "bemf", "feedback", "ctrl1", "ctrl2", "ctrl3", "ctrl4", "ctrl5"}
        \cup {WaveRegs[i] : i \in 1..8}


(***************************************************************************)
(* Inputs: the devices the driver is constructed on and the arguments its  *)
(* operations are called with.                                             *)
(***************************************************************************)
Override(f, g) == [r \in RegNames |-> IF r \in DOMAIN g THEN g[r] ELSE f[r]]

\* a device at its power-on register values: id 7, standby, OTP not programmed
PowerOnDevice ==
    Override([r \in RegNames |-> 0],
             [status |-> 224, mode |-> 64, lib |-> 1, wave0 |-> 1, rated |-> 62,
              clamp |-> 140, comp |-> 12, bemf |-> 108, feedback |-> 54,
              ctrl1 |-> 147, ctrl2 |-> 245, ctrl3 |-> 160, ctrl4 |-> 32, ctrl5 |-> 128])

\* a device left configured by an earlier session: real-time playback, out of
\* standby, closed loop, OTP programmed, a stale diagnostic-result bit
UsedDevice ==
    Override(PowerOnDevice,
             [status |-> 232, mode |-> 5, lib |-> 6, comp |-> 10, bemf |-> 112,
              feedback |-> 181, ctrl3 |-> 139, ctrl4 |-> 36, ctrl5 |-> 144, rtp |-> 9])

\* another chip of the family answering at the same address (device id 3)
ForeignDevice == Override(PowerOnDevice, [status |-> 96])

Devices == {PowerOnDevice, UsedDevice, ForeignDevice}

\* impl Default for CalibrationParams
DefaultCalibrationParams ==
    [brake_factor |-> 2, loop_gain |-> 2, lra_sample_time |-> 3, lra_blanking_time |-> 1,
     lra_idiss_time |-> 1, auto_cal_time |-> 3, lra_zc_det_time |-> 0,
     rated_voltage |-> 62, overdrive_voltage_clamp |-> 140, drive_time |-> 19]

ZeroLoad == [compenstation |-> 0, back_emf |-> 0, back_emf_gain |-> 0]

\* LoadParams handed to Calibration::Load; the second gain does not fit the field
LoadChoices ==
    {[compenstation |-> 13, back_emf |-> 109, back_emf_gain |-> 1],
     [compenstation |-> 7, back_emf |-> 200, back_emf_gain |-> 6]}

\* results the peripheral may leave after a successful auto-calibration
CalResults ==
    {[compenstation |-> 11, back_emf |-> 111, back_emf_gain |-> 3],
     [compenstation |-> 14, back_emf |-> 99, back_emf_gain |-> 0]}

\* impl Default for RomParams
DefaultRomParams ==
    [overdrive_time_offset |-> 0, sustain_positive_offset |-> 0,
     sustain_negative_offset |-> 0, brake_time_offset |-> 0,
     decrease_playback_interval |-> FALSE]

\* Mode::Rom(library, options) arguments
RomChoices ==
    {[library |-> 2,
      options |-> [overdrive_time_offset |-> 3, sustain_positive_offset |-> 4,
                   sustain_negative_offset |-> 5, brake_time_offset |-> 6,
                   decrease_playback_interval |-> TRUE]]}

NoRom == [library |-> 0, options |-> DefaultRomParams]

Modes == {"Pwm", "Rom", "Analog", "RealTimePlayback"}

Effects == {1, 47}

RomSequences == {<<14, 1, 47, 0, 0, 0, 0, 0>>}

Duties == {127}

NoArg ==
    [kind |-> "", enable |-> FALSE, duty |-> 0, effect |-> 0, roms |-> <<>>,
     load |-> ZeroLoad, auto |-> DefaultCalibrationParams, rom |-> NoRom]

\* the calibration argument of new
Calibrations ==
    {[NoArg EXCEPT !.kind = "Otp"], [NoArg EXCEPT !.kind = "Auto"]}
        \cup {[NoArg EXCEPT !.kind = "Load", !.load = l] : l \in LoadChoices}

NoVal == [b |-> FALSE, n |-> 0, cal |-> ZeroLoad]

NoLoc == [m |-> 0, ctrl3 |-> 0, t |-> 0, fb |-> 0, comp |-> 0]

\* haptic.check_id(7)
ExpectedId == 7

(***************************************************************************)
(* Bus transactions (fn write, fn read) and control transfer.              *)
(***************************************************************************)
Tx(k, r, bytes, ok) == [k |-> k, r |-> r, v |-> bytes, ok |-> ok]

\* the operation returns r to its caller
Return(r, v) ==
    /\ pc' = "idle"
    /\ ret' = r
    /\ val' = v
    /\ ready' = IF op = "new" THEN r = "Ok" ELSE ready
    /\ lastMode' = IF op = "set_mode" /\ r = "Ok" THEN arg.kind ELSE lastMode
    /\ modeSet' = (modeSet \/ (op = "set_mode" /\ r = "Ok"))

Goto(l) ==
    /\ pc' = l
    /\ UNCHANGED <<ret, val, ready, lastMode, modeSet>>

\* map_err(|_| DrvError::ConnectionError) followed by `?`
\* a failed transaction issued again instead of ending the operation
Fail_Retried == Goto(pc) /\ UNCHANGED loc

Fail == Return("ConnectionError", NoVal) /\ UNCHANGED loc

\* self.read::<REG>(): one write_read transaction of one byte; Then is the
\* code that follows it, which sees the byte read as regs[r]
Read(label, r, Then) ==
    /\ pc = label
    /\ \E ok \in BOOLEAN :
          /\ log' = Append(log, Tx("r", r, IF ok THEN <<regs[r]>> ELSE <<>>, ok))
          /\ IF ok THEN Then ELSE Fail
    /\ UNCHANGED <<regs, lra, cal, ncalls, op, arg, polls>>

\* self.write(reg): one write transaction of [REG::ADDRESS, value]
Write(label, r, value, Then) ==
    /\ pc = label
    /\ \E ok \in BOOLEAN :
          /\ log' = Append(log, Tx("w", r, <<value>>, ok))
          /\ IF ok
                THEN regs' = [regs EXCEPT ![r] = value] /\ Then
                ELSE UNCHANGED regs /\ Fail
    /\ UNCHANGED <<lra, cal, ncalls, op, arg, polls>>


(***************************************************************************)
(* Drv2605l::new and the private calls it is built from.                   *)
(***************************************************************************)
Init ==
    /\ regs \in Devices
    /\ lra \in BOOLEAN
    /\ arg \in Calibrations
    /\ cal = arg
    /\ ncalls = 0
    /\ op = "new"
    /\ pc = "check_id"
    /\ ready = FALSE
    /\ loc = NoLoc
    /\ ret = "none"
    /\ val = NoVal
    /\ log = <<>>
    /\ polls = 0
    /\ lastMode = "unknown"
    /\ modeSet = FALSE

\* the calibration path new dispatches to once the identity check has passed
CalibrationEntry(kind) ==
    CASE kind = "Otp" -> "is_otp"
      [] kind = "Load" -> "set_calibration_read"
      [] kind = "Auto" -> "auto_feedback"

\* check_id without the comparison: any device is accepted
check_id_Unchecked ==
    Read("check_id", "status",
         Goto(CalibrationEntry(arg.kind)) /\ UNCHANGED loc)

\* check_id: status(), then the comparison of the device-id field
check_id ==
    Read("check_id", "status",
         /\ IF device_id(regs["status"]) # ExpectedId
               THEN Return("WrongDeviceId", NoVal)
               ELSE Goto(CalibrationEntry(arg.kind))
         /\ UNCHANGED loc)

\* is_otp with its result ignored by new
is_otp_Ignored ==
    Read("is_otp", "ctrl4",
         Goto("set_standby_read") /\ UNCHANGED loc)

\* Calibration::Otp: is_otp reads Control4Reg
is_otp ==
    Read("is_otp", "ctrl4",
         /\ IF ~otp_status(regs["ctrl4"])
               THEN Return("OTPNotProgrammed", NoVal)
               ELSE Goto("set_standby_read")
         /\ UNCHANGED loc)

\* Calibration::Load: set_calibration
set_calibration_read ==
    Read("set_calibration_read", "feedback",
         Goto("set_calibration_feedback") /\ loc' = [loc EXCEPT !.t = regs["feedback"]])

\* set_calibration selecting the resonant actuator when the lra flag is set
set_calibration_feedback_SetsLra ==
    Write("set_calibration_feedback", "feedback",
          set_bemf_gain(IF lra THEN set_n_erm_lra(loc.t, TRUE) ELSE loc.t,
                        arg.load.back_emf_gain),
          Goto("set_calibration_comp") /\ UNCHANGED loc)

set_calibration_feedback ==
    Write("set_calibration_feedback", "feedback",
          set_bemf_gain(loc.t, arg.load.back_emf_gain),
          Goto("set_calibration_comp") /\ UNCHANGED loc)

set_calibration_comp ==
    Write("set_calibration_comp", "comp", arg.load.compenstation,
          Goto("set_calibration_bemf") /\ UNCHANGED loc)

set_calibration_bemf ==
    Write("set_calibration_bemf", "bemf", arg.load.back_emf,
          Goto("set_standby_read") /\ UNCHANGED loc)

\* Calibration::Auto: the registers built from the CalibrationParams
AutoFeedback(c, isLra) ==
    LET f == set_loop_gain(set_fb_brake_factor(FeedbackControlDefault, c.brake_factor),
                           c.loop_gain)
    IN  IF isLra THEN set_n_erm_lra(f, TRUE) ELSE f

AutoCtrl2(c) ==
    set_idiss_time(set_blanking_time(set_sample_time(Control2Default, c.lra_sample_time),
                                     c.lra_blanking_time),
                   c.lra_idiss_time)

AutoCtrl4(c) ==
    set_zc_det_time(set_auto_cal_time(Control4Default, c.auto_cal_time), c.lra_zc_det_time)

AutoCtrl1(c) == set_drive_time(Control1Default, c.drive_time)

auto_feedback ==
    Write("auto_feedback", "feedback", AutoFeedback(arg.auto, lra),
          Goto("auto_ctrl2") /\ UNCHANGED loc)

auto_ctrl2 ==
    Write("auto_ctrl2", "ctrl2", AutoCtrl2(arg.auto), Goto("auto_ctrl4") /\ UNCHANGED loc)

auto_ctrl4 ==
    Write("auto_ctrl4", "ctrl4", AutoCtrl4(arg.auto), Goto("auto_rated") /\ UNCHANGED loc)

auto_rated ==
    Write("auto_rated", "rated", arg.auto.rated_voltage,
          Goto("auto_clamp") /\ UNCHANGED loc)

auto_clamp ==
    Write("auto_clamp", "clamp", arg.auto.overdrive_voltage_clamp,
          Goto("auto_ctrl1") /\ UNCHANGED loc)

\* the auto path triggering GO without first putting the mode register in
\* auto-calibration
auto_ctrl1_GoFirst ==
    Write("auto_ctrl1", "ctrl1", AutoCtrl1(arg.auto),
          Goto("set_go_read") /\ UNCHANGED loc)

auto_ctrl1 ==
    Write("auto_ctrl1", "ctrl1", AutoCtrl1(arg.auto),
          Goto("calibrate_read") /\ UNCHANGED loc)

\* calibrate: mode register to auto-calibration with standby cleared
CalibrateMode(m) == set_mode_field(set_standby_bit(m, FALSE), AutoCalibration)

calibrate_read ==
    Read("calibrate_read", "mode",
         Goto("calibrate_mode") /\ loc' = [loc EXCEPT !.m = regs["mode"]])

calibrate_mode ==
    Write("calibrate_mode", "mode", CalibrateMode(loc.m),
          Goto("set_go_read") /\ UNCHANGED loc)

\* set_go: read-modify-write of the trigger register; called by calibrate and
\* by the user
set_go_read ==
    Read("set_go_read", "go",
         Goto("set_go_write") /\ loc' = [loc EXCEPT !.t = regs["go"]])

set_go_write ==
    Write("set_go_write", "go", set_go_bit(loc.t, TRUE),
          /\ IF op = "new" THEN Goto("calibrate_poll") ELSE Return("Ok", NoVal)
          /\ UNCHANGED loc)

\* the poll loop giving up after MaxPoll reads that found the GO bit set
calibrate_poll_TimesOut ==
    /\ pc = "calibrate_poll"
    /\ \E ok \in BOOLEAN :
          /\ log' = Append(log, Tx("r", "go", IF ok THEN <<regs["go"]>> ELSE <<>>, ok))
          /\ IF ~ok
                THEN Fail /\ UNCHANGED polls
                ELSE /\ IF go_bit(regs["go"]) /\ polls < MaxPoll
                           THEN Goto("calibrate_poll") /\ polls' = polls + 1
                           ELSE Goto("calibrate_status") /\ UNCHANGED polls
                     /\ UNCHANGED loc
    /\ UNCHANGED <<regs, lra, cal, ncalls, op, arg>>

\* calibrate: while self.read::<GoReg>().await?.go() {}
calibrate_poll ==
    /\ pc = "calibrate_poll"
    /\ polls < MaxPoll \/ ~go_bit(regs["go"])
    /\ \E ok \in BOOLEAN :
          /\ log' = Append(log, Tx("r", "go", IF ok THEN <<regs["go"]>> ELSE <<>>, ok))
          /\ IF ~ok
                THEN Fail /\ UNCHANGED polls
                ELSE /\ IF go_bit(regs["go"])
                           THEN Goto("calibrate_poll") /\ polls' = polls + 1
                           ELSE Goto("calibrate_status") /\ UNCHANGED polls
                     /\ UNCHANGED loc
    /\ UNCHANGED <<regs, lra, cal, ncalls, op, arg>>

\* calibrate going on to read the results whatever the diagnostic result
calibrate_status_Ignored ==
    Read("calibrate_status", "status",
         Goto("calibration_feedback") /\ UNCHANGED loc)

\* calibrate: status(), then the diagnostic-result check
calibrate_status ==
    Read("calibrate_status", "status",
         /\ IF diagnostic_result(regs["status"])
               THEN Return("CalibrationFailed", NoVal)
               ELSE Goto("calibration_feedback")
         /\ UNCHANGED loc)

\* calibration: the three result registers; called by calibrate and by the user
calibration_feedback ==
    Read("calibration_feedback", "feedback",
         Goto("calibration_comp") /\ loc' = [loc EXCEPT !.fb = regs["feedback"]])

calibration_comp ==
    Read("calibration_comp", "comp",
         Goto("calibration_bemf") /\ loc' = [loc EXCEPT !.comp = regs["comp"]])

\* calibration() with the compensation and back-EMF bytes exchanged
CalibrationResult_Swapped(fb, comp, bemf) ==
    [compenstation |-> bemf, back_emf |-> comp, back_emf_gain |-> bemf_gain(fb)]

\* the LoadParams calibration() builds from the three bytes read
CalibrationResult(fb, comp, bemf) ==
    [compenstation |-> comp, back_emf |-> bemf, back_emf_gain |-> bemf_gain(fb)]

calibration_bemf ==
    Read("calibration_bemf", "bemf",
         /\ IF op = "new"
               THEN Goto("set_standby_read")
               ELSE Return("Ok", [NoVal EXCEPT
                        !.cal = CalibrationResult(loc.fb, loc.comp, regs["bemf"])])
         /\ UNCHANGED loc)

\* new leaving the standby bit as the caller's (absent) argument says
StandbyArg_Unforced == arg.enable

\* set_standby: read-modify-write of the mode register; new calls it with true
StandbyArg == IF op = "new" THEN TRUE ELSE arg.enable

set_standby_read ==
    Read("set_standby_read", "mode",
         Goto("set_standby_write") /\ loc' = [loc EXCEPT !.m = regs["mode"]])

\* set_standby writing a fresh register instead of the byte it read
set_standby_write_Fresh ==
    Write("set_standby_write", "mode", set_standby_bit(0, StandbyArg),
          Return("Ok", NoVal) /\ UNCHANGED loc)

set_standby_write ==
    Write("set_standby_write", "mode", set_standby_bit(loc.m, StandbyArg),
          Return("Ok", NoVal) /\ UNCHANGED loc)

(***************************************************************************)
(* The peripheral: it clears the GO bit when the triggered process is over *)
(* and, when that process was an auto-calibration, leaves the diagnostic   *)
(* result in the status register and the results in their registers.       *)
(***************************************************************************)
PeripheralClearGo ==
    /\ go_bit(regs["go"])
    /\ LET cleared == [regs EXCEPT !["go"] = set_go_bit(@, FALSE)]
       IN  IF mode_field(regs["mode"]) = AutoCalibration /\ ~standby(regs["mode"])
              THEN \/ regs' = [cleared EXCEPT !["status"] = SetBit(@, 3, TRUE)]
                   \/ \E r \in CalResults :
                         regs' = [cleared EXCEPT
                                    !["status"] = SetBit(@, 3, FALSE),
                                    !["comp"] = r.compenstation,
                                    !["bemf"] = r.back_emf,
                                    !["feedback"] = set_bemf_gain(@, r.back_emf_gain)]
              ELSE regs' = cleared
    /\ UNCHANGED <<lra, cal, ncalls, ready, op, arg, pc, loc, ret, val, log, polls, lastMode, modeSet>>


(***************************************************************************)
(* The operations of a constructed controller.                             *)
(***************************************************************************)
SetModeCalls ==
    {[op |-> "set_mode", arg |-> [NoArg EXCEPT !.kind = k]] : k \in Modes \ {"Rom"}}
        \cup {[op |-> "set_mode", arg |-> [NoArg EXCEPT !.kind = "Rom", !.rom = r]] :
                 r \in RomChoices}

SetStandbyCalls ==
    {[op |-> "set_standby", arg |-> [NoArg EXCEPT !.enable = e]] : e \in BOOLEAN}

PlaybackCalls ==
    {[op |-> "set_rom", arg |-> [NoArg EXCEPT !.roms = q]] : q \in RomSequences}
        \cup {[op |-> "set_rom_single", arg |-> [NoArg EXCEPT !.effect = e]] :
                 e \in Effects}
        \cup {[op |-> "set_rtp", arg |-> [NoArg EXCEPT !.duty = d]] : d \in Duties}
        \cup {[op |-> "rtp", arg |-> NoArg]}

TriggerCalls == {[op |-> o, arg |-> NoArg] : o \in {"set_go", "go"}}

ReadbackCalls == {[op |-> o, arg |-> NoArg] : o \in {"status", "calibration"}}

\* the first bus transaction of each operation
Entry(o) ==
    CASE o = "set_mode" -> "set_mode_read_mode"
      [] o = "set_standby" -> "set_standby_read"
      [] o = "set_go" -> "set_go_read"
      [] o = "calibration" -> "calibration_feedback"
      [] OTHER -> o

\* the caller invokes an operation on the controller new returned
Invoke(calls) ==
    /\ pc = "idle"
    /\ ready
    /\ \E c \in calls :
          /\ op' = c.op
          /\ arg' = c.arg
          /\ pc' = Entry(c.op)
          /\ lastMode' = IF c.op = "set_mode" THEN "unknown" ELSE lastMode
    /\ loc' = NoLoc
    /\ ret' = "none"
    /\ val' = NoVal
    /\ log' = <<>>
    /\ UNCHANGED <<regs, lra, cal, ready, polls, modeSet>>

CallFrom(calls) == Invoke(calls) /\ UNCHANGED ncalls

\* set_mode where Pwm does not undo the open-loop bit of an earlier Rom
NewCtrl3_PwmKeeps(kind, isLra, c) ==
    LET closed == IF ~isLra THEN set_erm_open_loop(c, FALSE) ELSE c
    IN  CASE kind = "Pwm" -> set_n_pwm_analog(c, FALSE)
          [] kind = "Rom" -> IF ~isLra THEN set_erm_open_loop(c, TRUE) ELSE c
          [] kind = "Analog" -> set_n_pwm_analog(closed, TRUE)
          [] kind = "RealTimePlayback" ->
                 IF ~isLra
                    THEN set_erm_open_loop(set_data_format_rtp(c, TRUE), FALSE)
                    ELSE set_data_format_rtp(c, TRUE)

\* set_mode where Rom sets the open-loop bit whatever the actuator
NewCtrl3_RomAlwaysOpen(kind, isLra, c) ==
    LET closed == IF ~isLra THEN set_erm_open_loop(c, FALSE) ELSE c
    IN  CASE kind = "Pwm" -> set_n_pwm_analog(closed, FALSE)
          [] kind = "Rom" -> set_erm_open_loop(c, TRUE)
          [] kind = "Analog" -> set_n_pwm_analog(closed, TRUE)
          [] kind = "RealTimePlayback" ->
                 IF ~isLra
                    THEN set_erm_open_loop(set_data_format_rtp(c, TRUE), FALSE)
                    ELSE set_data_format_rtp(c, TRUE)

\* set_mode where RealTimePlayback leaves the open-loop bit as read
NewCtrl3_RtpKeeps(kind, isLra, c) ==
    LET closed == IF ~isLra THEN set_erm_open_loop(c, FALSE) ELSE c
    IN  CASE kind = "Pwm" -> set_n_pwm_analog(closed, FALSE)
          [] kind = "Rom" -> IF ~isLra THEN set_erm_open_loop(c, TRUE) ELSE c
          [] kind = "Analog" -> set_n_pwm_analog(closed, TRUE)
          [] kind = "RealTimePlayback" -> set_data_format_rtp(c, TRUE)

\* set_mode where Pwm clears the real-time-playback data-format bit
NewCtrl3_PwmClearsFormat(kind, isLra, c) ==
    LET closed == IF ~isLra THEN set_erm_open_loop(c, FALSE) ELSE c
    IN  CASE kind = "Pwm" -> set_data_format_rtp(set_n_pwm_analog(closed, FALSE), FALSE)
          [] kind = "Rom" -> IF ~isLra THEN set_erm_open_loop(c, TRUE) ELSE c
          [] kind = "Analog" -> set_n_pwm_analog(closed, TRUE)
          [] kind = "RealTimePlayback" ->
                 IF ~isLra
                    THEN set_erm_open_loop(set_data_format_rtp(c, TRUE), FALSE)
                    ELSE set_data_format_rtp(c, TRUE)

\* set_mode: the Control3Reg byte written for the target mode
NewCtrl3(kind, isLra, c) ==
    LET closed == IF ~isLra THEN set_erm_open_loop(c, FALSE) ELSE c
    IN  CASE kind = "Pwm" -> set_n_pwm_analog(closed, FALSE)
          [] kind = "Rom" -> IF ~isLra THEN set_erm_open_loop(c, TRUE) ELSE c
          [] kind = "Analog" -> set_n_pwm_analog(closed, TRUE)
          [] kind = "RealTimePlayback" ->
                 IF ~isLra
                    THEN set_erm_open_loop(set_data_format_rtp(c, TRUE), FALSE)
                    ELSE set_data_format_rtp(c, TRUE)

\* set_mode where Analog selects the real-time-playback mode value
ModeValue_AnalogAsRtp(kind) ==
    CASE kind = "Pwm" -> PwmInputAndAnalogInput
      [] kind = "Rom" -> InternalTrigger
      [] kind = "Analog" -> RealTimePlaybackMode
      [] kind = "RealTimePlayback" -> RealTimePlaybackMode

\* set_mode: the registers::Mode value written for the target mode
ModeValue(kind) ==
    CASE kind = "Pwm" -> PwmInputAndAnalogInput
      [] kind = "Rom" -> InternalTrigger
      [] kind = "Analog" -> PwmInputAndAnalogInput
      [] kind = "RealTimePlayback" -> RealTimePlaybackMode

\* set_mode building the mode byte from zero instead of the byte it read
NewMode_Fresh(kind, m) == set_mode_field(0, ModeValue(kind))

\* set_mode: the ModeReg byte written for the target mode
NewMode(kind, m) == set_mode_field(m, ModeValue(kind))

set_mode_read_mode ==
    Read("set_mode_read_mode", "mode",
         Goto("set_mode_read_ctrl3") /\ loc' = [loc EXCEPT !.m = regs["mode"]])

set_mode_read_ctrl3 ==
    Read("set_mode_read_ctrl3", "ctrl3",
         /\ Goto(IF arg.kind = "Rom" THEN "rom_read_ctrl5" ELSE "set_mode_ctrl3")
         /\ loc' = [loc EXCEPT !.ctrl3 = regs["ctrl3"]])

rom_read_ctrl5 ==
    Read("rom_read_ctrl5", "ctrl5",
         Goto("rom_ctrl5") /\ loc' = [loc EXCEPT !.t = regs["ctrl5"]])

rom_ctrl5 ==
    Write("rom_ctrl5", "ctrl5",
          set_playback_interval(loc.t, arg.rom.options.decrease_playback_interval),
          Goto("rom_overdrive") /\ UNCHANGED loc)

rom_overdrive ==
    Write("rom_overdrive", "odt", arg.rom.options.overdrive_time_offset,
          Goto("rom_sustain_p") /\ UNCHANGED loc)

rom_sustain_p ==
    Write("rom_sustain_p", "spt", arg.rom.options.sustain_positive_offset,
          Goto("rom_sustain_n") /\ UNCHANGED loc)

\* the Rom transition leaving the brake offset register alone
rom_sustain_n_SkipsBrake ==
    Write("rom_sustain_n", "snt", arg.rom.options.sustain_negative_offset,
          Goto("set_mode_ctrl3") /\ UNCHANGED loc)

rom_sustain_n ==
    Write("rom_sustain_n", "snt", arg.rom.options.sustain_negative_offset,
          Goto("rom_brake") /\ UNCHANGED loc)

rom_brake ==
    Write("rom_brake", "brt", arg.rom.options.brake_time_offset,
          Goto("set_mode_ctrl3") /\ UNCHANGED loc)

set_mode_ctrl3 ==
    Write("set_mode_ctrl3", "ctrl3", NewCtrl3(arg.kind, lra, loc.ctrl3),
          /\ Goto(IF arg.kind = "Rom" THEN "rom_read_lib" ELSE "set_mode_mode")
          /\ UNCHANGED loc)

rom_read_lib ==
    Read("rom_read_lib", "lib",
         Goto("rom_lib") /\ loc' = [loc EXCEPT !.t = regs["lib"]])

rom_lib ==
    Write("rom_lib", "lib", set_library_selection(loc.t, arg.rom.library),
          Goto("set_mode_mode") /\ UNCHANGED loc)

\* set_mode reading the mode register back after writing it
set_mode_mode_ReadBack ==
    /\ pc = "set_mode_mode"
    /\ \E ok, back \in BOOLEAN :
          LET w == NewMode(arg.kind, loc.m)
          IN  IF ok
                 THEN /\ log' = Append(Append(log, Tx("w", "mode", <<w>>, TRUE)),
                                       Tx("r", "mode", IF back THEN <<w>> ELSE <<>>, back))
                      /\ regs' = [regs EXCEPT !["mode"] = w]
                      /\ IF back THEN Return("Ok", NoVal) /\ UNCHANGED loc ELSE Fail
                 ELSE /\ log' = Append(log, Tx("w", "mode", <<w>>, FALSE))
                      /\ UNCHANGED regs
                      /\ Fail
    /\ UNCHANGED <<lra, cal, ncalls, op, arg, polls>>

set_mode_mode ==
    Write("set_mode_mode", "mode", NewMode(arg.kind, loc.m),
          Return("Ok", NoVal) /\ UNCHANGED loc)

\* one write transaction of Waveform0Reg::ADDRESS followed by the payload: the
\* device stores the bytes in consecutive waveform-sequence registers
WriteWaveforms(label, payload) ==
    /\ pc = label
    /\ \E ok \in BOOLEAN :
          /\ log' = <<Tx("w", "wave0", payload, ok)>>
          /\ IF ok
                THEN /\ regs' = [r \in RegNames |->
                                   IF \E i \in 1..Len(payload) : WaveRegs[i] = r
                                      THEN payload[CHOOSE i \in 1..Len(payload) :
                                                       WaveRegs[i] = r]
                                      ELSE regs[r]]
                     /\ Return("Ok", NoVal)
                     /\ UNCHANGED loc
                ELSE UNCHANGED regs /\ Fail
    /\ UNCHANGED <<lra, cal, ncalls, op, arg, polls>>

set_rom == WriteWaveforms("set_rom", arg.roms)

\* set_rom_single sending a whole sequence, the slots after the stop zeroed
set_rom_single_Padded ==
    WriteWaveforms("set_rom_single", <<arg.effect, EffectStop, 0, 0, 0, 0, 0, 0>>)

set_rom_single == WriteWaveforms("set_rom_single", <<arg.effect, EffectStop>>)

set_rtp == Write("set_rtp", "rtp", arg.duty, Return("Ok", NoVal) /\ UNCHANGED loc)

rtp ==
    Read("rtp", "rtp",
         Return("Ok", [NoVal EXCEPT !.n = regs["rtp"]]) /\ UNCHANGED loc)

\* go answering from a value held by the driver instead of the byte read
go_Cached ==
    Read("go", "go",
         Return("Ok", [NoVal EXCEPT !.b = go_bit(loc.t)]) /\ UNCHANGED loc)

go ==
    Read("go", "go",
         Return("Ok", [NoVal EXCEPT !.b = go_bit(regs["go"])]) /\ UNCHANGED loc)

status ==
    Read("status", "status",
         Return("Ok", [NoVal EXCEPT !.n = regs["status"]]) /\ UNCHANGED loc)

(***************************************************************************)
(* The specification.                                                      *)
(***************************************************************************)
\* the bus transactions of new and of the private calls it runs
NewSteps ==
    \/ check_id
    \/ is_otp
    \/ set_calibration_read
    \/ set_calibration_feedback
    \/ set_calibration_comp
    \/ set_calibration_bemf
    \/ auto_feedback
    \/ auto_ctrl2
    \/ auto_ctrl4
    \/ auto_rated
    \/ auto_clamp
    \/ auto_ctrl1
    \/ calibrate_read
    \/ calibrate_mode
    \/ set_go_read
    \/ set_go_write
    \/ calibrate_poll
    \/ calibrate_status
    \/ calibration_feedback
    \/ calibration_comp
    \/ calibration_bemf
    \/ set_standby_read
    \/ set_standby_write

\* new, and the peripheral beside it
Construction ==
    \/ NewSteps
    \/ PeripheralClearGo

SetMode ==
    \/ set_mode_read_mode
    \/ set_mode_read_ctrl3
    \/ rom_read_ctrl5
    \/ rom_ctrl5
    \/ rom_overdrive
    \/ rom_sustain_p
    \/ rom_sustain_n
    \/ rom_brake
    \/ set_mode_ctrl3
    \/ rom_read_lib
    \/ rom_lib
    \/ set_mode_mode

\* construction, then status and calibration readbacks in any order
Call == CallFrom(ReadbackCalls)

Next ==
    \/ Construction
    \/ Call
    \/ status

Spec == Init /\ [][Next]_vars

\* the same, where the executor keeps driving new's future and the peripheral
\* completes what GO started
SpecLive == Spec /\ WF_vars(NewSteps) /\ WF_vars(PeripheralClearGo)

\* construction, then mode transitions and standby calls in any order
CallMode == CallFrom(SetModeCalls \cup SetStandbyCalls)

NextMode ==
    \/ Construction
    \/ CallMode
    \/ SetMode

SpecMode == Init /\ [][NextMode]_vars

\* construction, then trigger and standby calls in any order
CallTrigger == CallFrom(TriggerCalls \cup SetStandbyCalls)

NextTrigger ==
    \/ Construction
    \/ CallTrigger
    \/ go

SpecTrigger == Init /\ [][NextTrigger]_vars

\* construction, then waveform and real-time-playback calls in any order
CallPlay == CallFrom(PlaybackCalls)

NextPlay ==
    \/ Construction
    \/ CallPlay
    \/ set_rom
    \/ set_rom_single
    \/ set_rtp
    \/ rtp

SpecPlay == Init /\ [][NextPlay]_vars

\* construction, then a counted number of calls of any operation
AllCalls ==
    SetModeCalls \cup SetStandbyCalls \cup PlaybackCalls \cup TriggerCalls
        \cup ReadbackCalls

CallAll ==
    /\ ncalls < MaxCalls
    /\ Invoke(AllCalls)
    /\ ncalls' = ncalls + 1

NextAll ==
    \/ Construction
    \/ CallAll
    \/ SetMode
    \/ set_rom
    \/ set_rom_single
    \/ set_rtp
    \/ rtp
    \/ go
    \/ status

SpecAll == Init /\ [][NextAll]_vars


(***************************************************************************)
(* Properties.                                                             *)
(***************************************************************************)
NoWrites == \A i \in DOMAIN log : log[i].k = "r"

\* the written byte w is the read byte r with only the standby bit replaced by x
OnlyStandbyReplaced(r, w, x) ==
    /\ standby(w) = x
    /\ Field(w, 0, 6) = Field(r, 0, 6)
    /\ Bit(w, 7) = Bit(r, 7)

\* C1: the first bus transaction of new is a read of the status register, and
\* when the device-id field of the byte read is not 7, new has returned
\* WrongDeviceId with no controller and without any register write, whatever
\* the calibration choice and the actuator flag.
C1_IdentityCheckFirst ==
    op = "new" =>
        /\ log # <<>> => (log[1].k = "r" /\ log[1].r = "status")
        /\ (log # <<>> /\ log[1].ok /\ device_id(log[1].v[1]) # ExpectedId)
               => (pc = "idle" /\ ret = "WrongDeviceId" /\ ~ready /\ Len(log) = 1 /\ NoWrites)

C1_Witness ==
    /\ op = "new" /\ pc = "idle" /\ ret = "WrongDeviceId"
    /\ arg.kind = "Auto" /\ lra
    /\ device_id(regs["status"]) # ExpectedId

\* C2: new with the Otp choice on a device with the right identity whose
\* OTP-status bit is unset returns OTPNotProgrammed after exactly two reads
\* (status, then the control register) and no write at all.
C2_OtpNotProgrammed ==
    (op = "new" /\ arg.kind = "Otp" /\ Len(log) >= 2) =>
        /\ log[2].k = "r" /\ log[2].r = "ctrl4"
        /\ (log[2].ok /\ ~otp_status(log[2].v[1]))
               => (pc = "idle" /\ ret = "OTPNotProgrammed" /\ ~ready /\ Len(log) = 2 /\ NoWrites)

C2_Witness ==
    /\ op = "new" /\ pc = "idle" /\ ret = "OTPNotProgrammed"
    /\ device_id(regs["status"]) = ExpectedId
    /\ ~otp_status(regs["ctrl4"])
    /\ Len(log) = 2

\* C3: whenever new returns Ok, on every calibration path, the last two bus
\* transactions are a read of the mode register and a write of that byte with
\* only the standby bit changed, to 1; the device's standby bit is 1.
C3_StandbyForced ==
    (op = "new" /\ pc = "idle" /\ ret = "Ok") =>
        LET n == Len(log)
        IN  /\ n >= 2
            /\ log[n - 1].k = "r" /\ log[n - 1].r = "mode" /\ log[n - 1].ok
            /\ log[n].k = "w" /\ log[n].r = "mode" /\ log[n].ok
            /\ OnlyStandbyReplaced(log[n - 1].v[1], log[n].v[1], TRUE)
            /\ regs["mode"] = log[n].v[1]
            /\ standby(regs["mode"])
            /\ ready

C3_Witness ==
    /\ op = "new" /\ pc = "idle" /\ ret = "Ok" /\ arg.kind = "Auto"
    /\ ~standby(log[Len(log) - 1].v[1])
    /\ standby(regs["mode"])

\* C7: new with the auto choice on a device of identity 7, every transaction
\* of which succeeded and whose diagnostic-result bit reads success once GO has
\* cleared, returns a controller; and calibration() returns the compensation
\* byte, the back-EMF byte and the back-EMF-gain field as they stand on the
\* device.
C7_AutoCalibrationReadback ==
    /\ (/\ op = "new" /\ arg.kind = "Auto" /\ pc = "idle"
        /\ \A i \in DOMAIN log : log[i].ok
        /\ device_id(regs["status"]) = ExpectedId
        /\ ~diagnostic_result(regs["status"]))
           => (ret = "Ok" /\ ready)
    /\ (op = "calibration" /\ pc = "idle" /\ ret = "Ok")
           => val.cal = [compenstation |-> regs["comp"],
                         back_emf |-> regs["bemf"],
                         back_emf_gain |-> Field(regs["feedback"], 0, 2)]

C7_Witness ==
    /\ op = "calibration" /\ pc = "idle" /\ ret = "Ok"
    /\ val.cal \in CalResults
    /\ mode_field(regs["mode"]) = AutoCalibration


\* the modes the registers select: the mode field, and for the PWM/analog
\* input value the PWM/analog select bit
SelectedModes(rs) ==
    {k \in Modes :
        CASE k = "Pwm" -> mode_field(rs["mode"]) = PwmInputAndAnalogInput
                              /\ ~n_pwm_analog(rs["ctrl3"])
          [] k = "Analog" -> mode_field(rs["mode"]) = PwmInputAndAnalogInput
                                 /\ n_pwm_analog(rs["ctrl3"])
          [] k = "Rom" -> mode_field(rs["mode"]) = InternalTrigger
          [] k = "RealTimePlayback" -> mode_field(rs["mode"]) = RealTimePlaybackMode}

\* open loop exactly when the mode field selects internal-trigger playback
LegalPair(rs) ==
    erm_open_loop(rs["ctrl3"]) <=> (mode_field(rs["mode"]) = InternalTrigger)

\* C4: on a non-resonant actuator, while the last set_mode call is one that
\* returned Ok, the open-loop bit is 1 if its target was Rom and 0 if it was
\* Pwm, Analog or RealTimePlayback, whatever the registers held before.
C4_OpenLoopFollowsMode ==
    (~lra /\ lastMode \in Modes) =>
        (erm_open_loop(regs["ctrl3"]) <=> (lastMode = "Rom"))

\* a Pwm transition that found the open-loop bit set next to the configuration
\* an earlier Rom transition wrote, and cleared it
C4_Witness ==
    /\ ~lra /\ lastMode = "Pwm"
    /\ op = "set_mode" /\ pc = "idle"
    /\ regs["odt"] = 3
    /\ erm_open_loop(loc.ctrl3)
    /\ ~erm_open_loop(regs["ctrl3"])

\* C5: on a resonant actuator no step of set_mode changes the open-loop bit
\* of the control-bits register, and the byte set_mode writes to that register
\* carries the open-loop bit read at the start of the call.
C5_ResonantKeepsOpenLoop ==
    [][(lra /\ op = "set_mode") =>
          /\ erm_open_loop(regs'["ctrl3"]) = erm_open_loop(regs["ctrl3"])
          /\ (pc = "set_mode_ctrl3")
                 => (erm_open_loop(log'[Len(log')].v[1]) = erm_open_loop(loc.ctrl3))]_vars

C5_Witness ==
    /\ lra /\ lastMode = "Rom"
    /\ op = "set_mode" /\ pc = "idle"
    /\ ~erm_open_loop(regs["ctrl3"])

C8_TargetSelected ==
    lastMode \in Modes => SelectedModes(regs) = {lastMode}

\* an Analog transition made while real-time playback was selected
C8_Witness ==
    /\ lastMode = "Analog" /\ op = "set_mode" /\ pc = "idle"
    /\ mode_field(loc.m) = RealTimePlaybackMode
    /\ SelectedModes(regs) = {"Analog"}

\* C9: set_standby(enable) issues at most one write; it is its second
\* transaction, goes to the mode register, and carries the byte read by the
\* first transaction with only the standby bit replaced by enable.
C9_StandbyOnlyStandbyBit ==
    op = "set_standby" =>
        \A i \in DOMAIN log :
            log[i].k = "w" =>
                /\ i = 2
                /\ log[1].k = "r" /\ log[1].r = "mode" /\ log[1].ok
                /\ log[2].r = "mode"
                /\ Len(log[2].v) = 1
                /\ OnlyStandbyReplaced(log[1].v[1], log[2].v[1], arg.enable)

\* standby cleared on a device whose mode field selects real-time playback
C9_Witness ==
    /\ op = "set_standby" /\ pc = "idle" /\ ret = "Ok" /\ ~arg.enable
    /\ standby(log[1].v[1])
    /\ ~standby(regs["mode"])
    /\ mode_field(regs["mode"]) = RealTimePlaybackMode

\* C10: a set_go that returns Ok leaves the GO bit set; no step of the driver
\* clears a set GO bit, only the peripheral does; and go() returns the GO bit
\* the device holds when it is read.
C10_GoReadsDevice ==
    [][/\ (op = "set_go" /\ pc = "set_go_write" /\ ret' = "Ok") => go_bit(regs'["go"])
       /\ (pc = "go" /\ ret' = "Ok") => (val'.b = go_bit(regs["go"]))
       /\ (go_bit(regs["go"]) /\ ~go_bit(regs'["go"])) => PeripheralClearGo]_vars

\* go() has returned true after a set_go, and the peripheral has since
\* cleared the GO bit
C10_Witness ==
    /\ op = "go" /\ pc = "idle" /\ ret = "Ok"
    /\ val.b
    /\ ~go_bit(regs["go"])

\* C11: set_rom_single(effect) is one bus write, to the first waveform
\* register, whose payload is exactly the effect followed by the stop marker;
\* the call returns with it, and waveform slots 2 to 7 keep their content.
C11_SingleWritesTwoSlots ==
    [][(pc = "set_rom_single" /\ pc' # pc) =>
          /\ pc' = "idle"
          /\ log' = <<Tx("w", "wave0", <<arg.effect, EffectStop>>, ret' = "Ok")>>
          /\ ret' \in {"Ok", "ConnectionError"}
          /\ \A i \in 3..8 : regs'[WaveRegs[i]] = regs[WaveRegs[i]]
          /\ ret' = "Ok" => /\ regs'["wave0"] = arg.effect
                            /\ regs'["wave1"] = EffectStop]_vars

\* a single effect written over a longer sequence: slot 2 still holds the
\* effect the earlier set_rom put there
C11_Witness ==
    /\ op = "set_rom_single" /\ pc = "idle" /\ ret = "Ok"
    /\ arg.effect = 47
    /\ regs["wave0"] = 47 /\ regs["wave1"] = EffectStop
    /\ regs["wave2"] = 47

\* C12: in every operation a failed bus transaction is the last one of the
\* operation, which has returned ConnectionError with it: nothing is issued
\* after it and it is not issued again.  An operation returns ConnectionError
\* only so.
C12_FirstFailureReturns ==
    /\ \A i \in DOMAIN log :
          ~log[i].ok => /\ i = Len(log)
                        /\ pc = "idle"
                        /\ ret = "ConnectionError"
    /\ ret = "ConnectionError" => (log # <<>> /\ ~log[Len(log)].ok)

\* a Rom transition whose fifth transaction, the write of the overdrive
\* offset, failed after four that succeeded
C12_Witness ==
    /\ op = "set_mode" /\ pc = "idle" /\ ret = "ConnectionError"
    /\ Len(log) = 5
    /\ log[5].k = "w" /\ log[5].r = "odt" /\ ~log[5].ok
    /\ \A i \in 1..4 : log[i].ok

\* the registers the auto path configures, in the order it writes them
AutoConfigOrder == <<"feedback", "ctrl2", "ctrl4", "rated", "clamp", "ctrl1">>

\* transaction i of the log is a read (k = "r") or write (k = "w") of register r
IsTx(i, k, r) == log[i].k = k /\ log[i].r = r

\* C13: on the auto path, after the identity read, the bus carries the six
\* configuration writes in order, the mode-register write with standby
\* cleared and mode = auto-calibration, the write setting GO, GO reads until
\* one returns 0, and then the status read.  GO is written, and polled, only
\* while the mode register holds auto-calibration with standby cleared, and
\* status is read only right after a GO read that returned 0.
C13_AutoCalibrateOrder ==
    (op = "new" /\ cal.kind = "Auto") =>
        /\ \A i \in DOMAIN log :
              /\ i \in 2..7 => IsTx(i, "w", AutoConfigOrder[i - 1])
              /\ i = 8 => IsTx(i, "r", "mode")
              /\ i = 9 => /\ IsTx(i, "w", "mode")
                          /\ ~standby(log[i].v[1])
                          /\ mode_field(log[i].v[1]) = AutoCalibration
              /\ i = 10 => IsTx(i, "r", "go")
              /\ i = 11 => IsTx(i, "w", "go") /\ go_bit(log[i].v[1])
              /\ i = 12 => IsTx(i, "r", "go")
              /\ (i > 12 /\ IsTx(i - 1, "r", "go")) =>
                    IF go_bit(log[i - 1].v[1])
                       THEN IsTx(i, "r", "go")
                       ELSE IsTx(i, "r", "status")
              /\ (i > 1 /\ IsTx(i, "r", "status")) =>
                    /\ i > 12
                    /\ IsTx(i - 1, "r", "go")
                    /\ ~go_bit(log[i - 1].v[1])
              /\ (IsTx(i, "w", "go") \/ IsTx(i, "r", "go")) => i >= 10
        /\ pc \in {"set_go_read", "set_go_write", "calibrate_poll", "calibrate_status"} =>
              /\ ~standby(regs["mode"])
              /\ mode_field(regs["mode"]) = AutoCalibration

\* an auto-calibration that returned Ok after a first GO read that found the
\* bit still set
C13_Witness ==
    /\ op = "new" /\ cal.kind = "Auto" /\ pc = "idle" /\ ret = "Ok"
    /\ Len(log) > 13
    /\ go_bit(log[12].v[1])
    /\ IsTx(13, "r", "go") /\ ~go_bit(log[13].v[1])
    /\ IsTx(14, "r", "status")

\* C14: the poll loop has no timeout.  Once the peripheral clears GO,
\* construction leaves the loop and returns; while GO is set, every step the
\* driver takes in the loop is one more GO read, after which it is still in
\* the loop unless that read failed, and the loop is left toward the status
\* read only from a state where GO is clear.
C14_PollHasNoTimeout ==
    /\ (op = "new" /\ pc = "calibrate_poll") ~> (op = "new" /\ pc = "idle")
    /\ [][(pc = "calibrate_poll" /\ log' # log) =>
             /\ log' = Append(log, log'[Len(log')])
             /\ IsTx(Len(log), "w", "go") \/ IsTx(Len(log), "r", "go")
             /\ log'[Len(log')].k = "r" /\ log'[Len(log')].r = "go"
             /\ IF ~log'[Len(log')].ok
                   THEN pc' = "idle" /\ ret' = "ConnectionError"
                   ELSE IF go_bit(regs["go"])
                           THEN pc' = "calibrate_poll" /\ ret' = "none"
                           ELSE pc' = "calibrate_status"]_vars

\* the loop has read GO as set as often as the model lets it, and GO is
\* still set
C14_Witness ==
    /\ op = "new" /\ pc = "calibrate_poll"
    /\ polls = MaxPoll
    /\ go_bit(regs["go"])
    /\ IsTx(Len(log), "r", "go") /\ go_bit(log[Len(log)].v[1])

\* C15: on the auto path, a status read after the poll that shows the
\* diagnostic-result bit ends construction with CalibrationFailed and no
\* controller; and when new has returned CalibrationFailed, the write setting
\* GO is the last write of the log, so that the mode register is left with
\* standby cleared and mode = auto-calibration.
C15_CalibrationFailedLeavesAutoMode ==
    /\ (op = "new" /\ cal.kind = "Auto") =>
          \A i \in DOMAIN log :
              (i > 12 /\ IsTx(i, "r", "status") /\ log[i].ok
                  /\ diagnostic_result(log[i].v[1])) =>
                  /\ i = Len(log)
                  /\ pc = "idle"
                  /\ ret = "CalibrationFailed"
    /\ ret = "CalibrationFailed" =>
          /\ op = "new" /\ cal.kind = "Auto" /\ pc = "idle"
          /\ ~ready
          /\ Len(log) > 12
          /\ IsTx(11, "w", "go")
          /\ \A i \in DOMAIN log : i > 11 => log[i].k = "r"
          /\ IsTx(Len(log), "r", "status")
          /\ diagnostic_result(log[Len(log)].v[1])
          /\ ~standby(regs["mode"])
          /\ mode_field(regs["mode"]) = AutoCalibration

\* a failed auto-calibration on a device that was found in standby: the
\* device is left out of standby, in auto-calibration mode
C15_Witness ==
    /\ op = "new" /\ pc = "idle" /\ ret = "CalibrationFailed"
    /\ ~ready
    /\ standby(log[8].v[1])
    /\ ~standby(regs["mode"])
    /\ mode_field(regs["mode"]) = AutoCalibration

IsWrite(t) == t.k = "w"

\* the registers written in the operation so far, in bus order
WrittenRegs == [i \in DOMAIN SelectSeq(log, IsWrite) |-> SelectSeq(log, IsWrite)[i].r]

\* how often register r was read in the operation so far
ReadsOf(r) == Cardinality({i \in DOMAIN log : IsTx(i, "r", r)})

\* the configuration registers a Rom transition writes besides control-bits
\* and mode
RomConfigRegs == {"ctrl5", "odt", "spt", "snt", "brt", "lib"}

\* the statement of C16 as claimed: a successful Rom transition writes
\* control-bits, mode and exactly five more registers
C16_Claimed_RomWritesFiveMore ==
    (op = "set_mode" /\ pc = "idle" /\ ret = "Ok") =>
        /\ ReadsOf("ctrl3") = 1 /\ ReadsOf("mode") = 1
        /\ arg.kind # "Rom" => WrittenRegs = <<"ctrl3", "mode">>
        /\ arg.kind = "Rom" =>
              /\ Len(WrittenRegs) = 7
              /\ Cardinality({WrittenRegs[i] : i \in DOMAIN WrittenRegs}
                                 \ {"ctrl3", "mode"}) = 5

\* C16: a set_mode that returned Ok has read the control-bits register and
\* the mode register once each; for Pwm, Analog and RealTimePlayback it has
\* written control-bits and then mode and nothing else; for Rom it has
\* written eight registers: the playback-interval register, the four
\* timing-offset registers, control-bits, the library selector and last the
\* mode register, that is six registers besides control-bits and mode.
C16_SetModeTransactions ==
    (op = "set_mode" /\ pc = "idle" /\ ret = "Ok") =>
        /\ ReadsOf("ctrl3") = 1 /\ ReadsOf("mode") = 1
        /\ arg.kind # "Rom" => WrittenRegs = <<"ctrl3", "mode">>
        /\ arg.kind = "Rom" =>
              /\ WrittenRegs = <<"ctrl5", "odt", "spt", "snt", "brt", "ctrl3", "lib", "mode">>
              /\ {WrittenRegs[i] : i \in DOMAIN WrittenRegs} \ {"ctrl3", "mode"}
                     = RomConfigRegs
              /\ Cardinality(RomConfigRegs) = 6

\* a Rom transition that returned Ok with all six configuration registers
\* holding what it was asked to write
C16_Witness ==
    /\ op = "set_mode" /\ arg.kind = "Rom" /\ pc = "idle" /\ ret = "Ok"
    /\ Len(log) = 12
    /\ regs["odt"] = arg.rom.options.overdrive_time_offset
    /\ regs["spt"] = arg.rom.options.sustain_positive_offset
    /\ regs["snt"] = arg.rom.options.sustain_negative_offset
    /\ regs["brt"] = arg.rom.options.brake_time_offset
    /\ library_selection(regs["lib"]) = arg.rom.library
    /\ playback_interval(regs["ctrl5"]) = arg.rom.options.decrease_playback_interval

\* C17: in every step of every operation, the data-format bit of the
\* control-bits register goes from 0 to 1 only in the control-bits write of
\* set_mode(RealTimePlayback), which always writes it as 1; the control-bits
\* write of set_mode to Pwm, Analog or Rom carries the bit as the call read
\* it; and no step takes the bit from 1 to 0.
C17_DataFormatSticks ==
    [][/\ data_format_rtp(regs["ctrl3"]) => data_format_rtp(regs'["ctrl3"])
       /\ (~data_format_rtp(regs["ctrl3"]) /\ data_format_rtp(regs'["ctrl3"])) =>
             /\ op = "set_mode" /\ arg.kind = "RealTimePlayback"
             /\ pc = "set_mode_ctrl3"
       /\ (pc = "set_mode_ctrl3" /\ log' # log) =>
             /\ log'[Len(log')].k = "w" /\ log'[Len(log')].r = "ctrl3"
             /\ IsTx(2, "r", "ctrl3")
             /\ data_format_rtp(log'[Len(log')].v[1])
                   = IF arg.kind = "RealTimePlayback"
                        THEN TRUE
                        ELSE data_format_rtp(log[2].v[1])]_vars

\* a device that powered on with the bit clear still has it set after a
\* later transition to Pwm returned Ok
C17_Witness ==
    /\ ~data_format_rtp(PowerOnDevice["ctrl3"])
    /\ regs["ctrl4"] = PowerOnDevice["ctrl4"] /\ cal.kind = "Load"
    /\ op = "set_mode" /\ arg.kind = "Pwm" /\ pc = "idle" /\ ret = "Ok"
    /\ data_format_rtp(log[2].v[1])
    /\ data_format_rtp(regs["ctrl3"])

\* C18: on the reload path the transactions after the identity read are a
\* read of feedback-control, its write with the byte read in which only the
\* two-bit gain field is replaced (by the loaded gain, cut to the field), and
\* writes of the loaded compensation and back-EMF bytes; a construction that
\* returned Ok has written these three registers and then the mode register,
\* nothing else.  A calibration() called on the controller returns the loaded
\* compensation and back-EMF bytes, and the loaded gain when it fits two bits.
C18_ReloadWritesThree ==
    /\ (op = "new" /\ cal.kind = "Load") =>
          /\ \A i \in DOMAIN log :
                /\ i = 2 => IsTx(i, "r", "feedback")
                /\ i = 3 => /\ IsTx(i, "w", "feedback")
                            /\ Field(log[i].v[1], 2, 6) = Field(log[2].v[1], 2, 6)
                            /\ n_erm_lra(log[i].v[1]) = n_erm_lra(log[2].v[1])
                            /\ Field(log[i].v[1], 0, 2) = cal.load.back_emf_gain % 4
                /\ i = 4 => IsTx(i, "w", "comp") /\ log[i].v = <<cal.load.compenstation>>
                /\ i = 5 => IsTx(i, "w", "bemf") /\ log[i].v = <<cal.load.back_emf>>
          /\ (pc = "idle" /\ ret = "Ok") =>
                WrittenRegs = <<"feedback", "comp", "bemf", "mode">>
    /\ (op = "calibration" /\ pc = "idle" /\ ret = "Ok" /\ cal.kind = "Load") =>
          /\ val.cal.compenstation = cal.load.compenstation
          /\ val.cal.back_emf = cal.load.back_emf
          /\ cal.load.back_emf_gain < 4 =>
                val.cal.back_emf_gain = cal.load.back_emf_gain

\* calibration() returning the loaded parameters on a controller built with
\* the lra flag set, the device still selecting the non-resonant actuator
C18_Witness ==
    /\ op = "calibration" /\ pc = "idle" /\ ret = "Ok"
    /\ cal.kind = "Load" /\ cal.load.back_emf_gain = 1
    /\ val.cal = cal.load
    /\ lra /\ ~n_erm_lra(regs["feedback"])

\* C19: the mode-register byte set_mode writes carries the standby bit of
\* the byte the call read first; a construction that returns a controller
\* leaves the device in standby; and from then on the only step that takes
\* the device out of standby is the mode-register write of set_standby(false).
C19_StandbyUntilCleared ==
    [][/\ (op = "set_mode" /\ pc = "set_mode_mode" /\ log' # log) =>
             /\ IsTx(1, "r", "mode")
             /\ log'[Len(log')].k = "w" /\ log'[Len(log')].r = "mode"
             /\ standby(log'[Len(log')].v[1]) = standby(log[1].v[1])
       /\ (~ready /\ ready') => standby(regs'["mode"])
       /\ (ready /\ standby(regs["mode"]) /\ ~standby(regs'["mode"])) =>
             /\ op = "set_standby" /\ ~arg.enable
             /\ pc = "set_standby_write"]_vars

\* a set_go that returned Ok after a transition to Rom, the device still in
\* standby
C19_Witness ==
    /\ op = "set_go" /\ pc = "idle" /\ ret = "Ok"
    /\ modeSet /\ lastMode = "Rom"
    /\ mode_field(regs["mode"]) = InternalTrigger
    /\ go_bit(regs["go"])
    /\ standby(regs["mode"])

\* C20: in a set_mode call a write of the mode register is the last
\* transaction of the call; the mode register changes only in that write when
\* it succeeds, the call then returning Ok, so that a call that failed has left
\* the mode register as it was; and every register the call wrote with
\* success holds the byte written, also after the call has failed.
C20_ModeWriteLast ==
    /\ [](op = "set_mode" =>
             \A i \in DOMAIN log :
                 /\ IsTx(i, "w", "mode") => (i = Len(log) /\ pc = "idle")
                 /\ (log[i].k = "w" /\ log[i].ok) => regs[log[i].r] = log[i].v[1])
    /\ [][(op = "set_mode" /\ regs'["mode"] # regs["mode"]) =>
             /\ pc = "set_mode_mode"
             /\ pc' = "idle" /\ ret' = "Ok"
             /\ log'[Len(log')].ok]_vars

\* a Rom transition that failed at the library write: the mode register
\* still holds the byte read first, with another mode selected, while the
\* control-bits register and the offsets hold the new values
C20_Witness ==
    /\ op = "set_mode" /\ arg.kind = "Rom" /\ pc = "idle" /\ ret = "ConnectionError"
    /\ ~lra
    /\ IsTx(Len(log), "w", "lib")
    /\ regs["mode"] = log[1].v[1]
    /\ mode_field(regs["mode"]) = RealTimePlaybackMode
    /\ ~erm_open_loop(log[2].v[1]) /\ erm_open_loop(regs["ctrl3"])
    /\ regs["brt"] = arg.rom.options.brake_time_offset

====
